---- MODULE Spec2Model ----
(***************************************************************************)
(* CloudPath: the PowerCenter migration server.                            *)
(*                                                                         *)
(* State: the seven Maps of MemStorage (client/src/lib/utils.ts), the      *)
(* timers created by PowerCenterService.startRealTimeSync and the discover *)
(* requests that are waiting for their adapter call.  One action per HTTP  *)
(* route of createRoutes (server/index.ts) and per timer callback.         *)
(*                                                                         *)
(* Node runs one callback at a time and drains the microtask queue before  *)
(* the next one, and MemStorage never waits for I/O, so a handler is       *)
(* atomic up to its first adapter call (fetch / exec).  Only the discover  *)
(* route has one: it is split in DiscoverBegin and DiscoverEnd.            *)
(***************************************************************************)
EXTENDS Integers, Sequences, FiniteSets, TLC

VARIABLES
    repositoryConnections,  \* MemStorage.repositoryConnections: id -> record
    migrationProjects,      \* MemStorage.migrationProjects: id -> record
    powerCenterObjects,     \* MemStorage.powerCenterObjects, in insertion order
    assessmentResults,      \* MemStorage.assessmentResults, in insertion order
    syncStatuses,           \* MemStorage.syncStatuses: projectId -> record
    timers,                 \* one entry per startRealTimeSync call
    pendingDiscoveries,     \* discover requests awaiting the adapter
    nextId,                 \* ids handed out so far, per entity kind
    now,                    \* the wall clock read by new Date()
    last,                   \* the response to the handler that ran last
    callObjects,            \* the argument of a direct assessMigrationComplexity call
    callResult,             \* what that call returned
    pendingTests            \* connection tests awaiting their probe

vars == <<repositoryConnections, migrationProjects, powerCenterObjects,
          assessmentResults, syncStatuses, timers, pendingDiscoveries,
          nextId, now, last, callObjects, callResult, pendingTests>>

----------------------------------------------------------------------------
(* Bounds of the model.                                                    *)

MaxProjects == 1
MaxConnections == 1
MaxTimers == 2
MaxCycles == 2
MaxUpdates == 1
MaxTime == 1
MaxPayload == 3
MaxStored == 3
MaxResults == 2
MaxPending == 1
MaxCallObjects == 23
MaxTests == 1

ProjectIds == 1..MaxProjects
ConnectionIds == 1..MaxConnections

----------------------------------------------------------------------------
(* Values.                                                                 *)

\* A field that an object does not have reads as undefined.
Undefined == "<undefined>"

\* errors: null.  The routes write either null or a one-element list.
NullErrors == <<>>

Get(o, f) == IF f \in DOMAIN o THEN o[f] ELSE Undefined

\* JavaScript truthiness of a string-or-undefined value.
Truthy(v) == v # Undefined /\ v # ""

\* { ...a, ...b }
Spread(a, b) == b @@ a

\* The result of a division: a number, or NaN for 0/0.
Num(n) == [nan |-> FALSE, v |-> n]
NaN == [nan |-> TRUE, v |-> 0]

\* Math.round(x) for x = p / q >= 0, q > 0: floor(x + 1/2).
MathRound(p, q) == (2 * p + q) \div (2 * q)

\* Math.ceil(x) for x = p / q >= 0, q > 0.
MathCeil(p, q) == (p + q - 1) \div q

----------------------------------------------------------------------------
(* MemStorage (client/src/lib/utils.ts).  A Map is a function whose domain *)
(* is the set of its keys.                                                 *)

NullDate == <<>>
Date(t) == <<t>>

Remove(map, id) == [k \in DOMAIN map \ {id} |-> map[k]]

createRepositoryConnection(conns, id, connection) ==
    conns @@ (id :> Spread(connection, [isActive |-> FALSE, lastConnected |-> NullDate]))

\* Throws 'Repository connection not found' when the id is unknown: the
\* caller tests for it and models the throw.
updateRepositoryConnection_Replaces(conns, id, updates) ==
    [conns EXCEPT ![id] = updates]

updateRepositoryConnection(conns, id, updates) ==
    [conns EXCEPT ![id] = Spread(conns[id], updates)]

deleteRepositoryConnection(conns, id) == Remove(conns, id)

createMigrationProject(projects, id, project) ==
    projects @@ (id :> Spread(project, [status |-> "DISCOVERY",
                                        autoMigrationPercentage |-> Num(0),
                                        totalObjects |-> 0]))

\* Throws 'Migration project not found' when the id is unknown: the callers
\* test MigrationProjectExists first and model the throw themselves.
MigrationProjectExists(projects, id) == id \in DOMAIN projects

updateMigrationProject_ExistingWins(projects, id, updates) ==
    [projects EXCEPT ![id] = Spread(updates, projects[id])]

updateMigrationProject_ResetsStats(projects, id, updates) ==
    [projects EXCEPT ![id] = Spread(Spread(projects[id], [totalObjects |-> 0]), updates)]

updateMigrationProject(projects, id, updates) ==
    [projects EXCEPT ![id] = Spread(projects[id], updates)]

deleteMigrationProject(projects, id) == Remove(projects, id)

\* updateSyncStatus is an upsert: defaults, then the stored record, then the
\* fields passed in.  It does not look the project up.
updateSyncStatus_ExistingWins(statuses, projectId, status, t) ==
    LET defaults == [lastSyncTime |-> Date(t), syncType |-> "INCREMENTAL",
                     status |-> "COMPLETED", itemsProcessed |-> 0,
                     errors |-> NullErrors]
        existing == IF projectId \in DOMAIN statuses THEN statuses[projectId] ELSE <<>>
        updated == Spread(Spread(defaults, status), existing)
    IN  (projectId :> updated) @@ statuses

updateSyncStatus(statuses, projectId, status, t) ==
    LET defaults == [lastSyncTime |-> Date(t), syncType |-> "INCREMENTAL",
                     status |-> "COMPLETED", itemsProcessed |-> 0,
                     errors |-> NullErrors]
        existing == IF projectId \in DOMAIN statuses THEN statuses[projectId] ELSE <<>>
        updated == Spread(Spread(defaults, existing), status)
    IN  (projectId :> updated) @@ statuses

----------------------------------------------------------------------------
(* PowerCenterService.startRealTimeSync (server/powercenter-service.ts).   *)
(* A timer entry is the pair setInterval / setTimeout of one call: the     *)
(* interval fires the polling callback until clearInterval, the timeout    *)
(* fires once, after 24 hours, and clears the interval.                    *)

\* checkForUpdates is a placeholder that resolves to [] without waiting for
\* I/O, so a polling cycle is one atomic step.  The callback handles a probe
\* that resolves with any number of updates and one that rejects; its input
\* is drawn from ProbeOutcomes, of which Ok(0) is what the placeholder gives.
ErrorMessages == {"", "ECONNREFUSED"}
Ok(n) == [kind |-> "ok", n |-> n, message |-> Undefined]
Err(m) == [kind |-> "err", n |-> 0, message |-> m]
checkForUpdates == Ok(0)
ProbeOutcomes ==
    {checkForUpdates} \cup {Ok(n) : n \in 1..MaxUpdates} \cup {Err(m) : m \in ErrorMessages}

\* setInterval(callback, 30000); setTimeout(clearInterval, 24h).  The call
\* looks at no state: every call adds a timer.
startRealTimeSync(ts, projectId) ==
    Append(ts, [projectId |-> projectId, interval |-> "active",
                lifetimeFired |-> FALSE, cycles |-> 0])

clearInterval_Noop(ts, t) == ts

clearInterval(ts, t) == [ts EXCEPT ![t].interval = "cleared"]

\* The polling callback: whether it calls onUpdate, and with what.  A probe
\* that resolves with no updates calls nothing.
CallsOnUpdate(outcome) == outcome.kind = "err" \/ outcome.n > 0

CallbackUpdate(outcome) ==
    IF outcome.kind = "ok"
    THEN [updates |-> outcome.n]
    ELSE [error |-> outcome.message]

\* onUpdate of the start-sync route (server/index.ts): the fields written.
onUpdate(update, t) ==
    [lastSyncTime |-> Date(t),
     status |-> IF Truthy(Get(update, "error")) THEN "FAILED" ELSE "COMPLETED",
     errors |-> IF Truthy(Get(update, "error")) THEN <<update.error>> ELSE NullErrors]

----------------------------------------------------------------------------
(* The routes of createRoutes (server/index.ts).                           *)

\* No call of assessMigrationComplexity has returned yet.
NoResult == [complexity |-> "none", automationCoverage |-> 0, issues |-> <<>>]

Response(op, id, code) == [op |-> op, id |-> id, code |-> code]

ConnectionTypes == {"REST_API", "PMREP"}

\* POST /api/repository-connections
CreateConnection(type) ==
    /\ nextId.connection <= MaxConnections
    /\ repositoryConnections' =
           createRepositoryConnection(repositoryConnections, nextId.connection,
                                      [connectionType |-> type])
    /\ nextId' = [nextId EXCEPT !.connection = @ + 1]
    /\ last' = Response("create-connection", nextId.connection, 201)
    /\ UNCHANGED <<callObjects, callResult, pendingTests>>
    /\ UNCHANGED <<migrationProjects, powerCenterObjects, assessmentResults,
                   syncStatuses, timers, pendingDiscoveries, now>>

\* DELETE /api/repository-connections/:id
DeleteConnection(id) ==
    /\ repositoryConnections' = deleteRepositoryConnection(repositoryConnections, id)
    /\ last' = Response("delete-connection", id, 204)
    /\ UNCHANGED <<callObjects, callResult, pendingTests>>
    /\ UNCHANGED <<migrationProjects, powerCenterObjects, assessmentResults,
                   syncStatuses, timers, pendingDiscoveries, nextId, now>>

\* POST /api/migration-projects: repositoryConnectionId is any text.
CreateProject(connectionId) ==
    /\ nextId.project <= MaxProjects
    /\ migrationProjects' =
           createMigrationProject(migrationProjects, nextId.project,
                                  [repositoryConnectionId |-> connectionId])
    /\ nextId' = [nextId EXCEPT !.project = @ + 1]
    /\ last' = Response("create-project", nextId.project, 201)
    /\ UNCHANGED <<callObjects, callResult, pendingTests>>
    /\ UNCHANGED <<repositoryConnections, powerCenterObjects, assessmentResults,
                   syncStatuses, timers, pendingDiscoveries, now>>

\* DELETE /api/migration-projects/:id
DeleteProject(id) ==
    /\ migrationProjects' = deleteMigrationProject(migrationProjects, id)
    /\ last' = Response("delete-project", id, 204)
    /\ UNCHANGED <<callObjects, callResult, pendingTests>>
    /\ UNCHANGED <<repositoryConnections, powerCenterObjects, assessmentResults,
                   syncStatuses, timers, pendingDiscoveries, nextId, now>>

StartSyncResponse_FailsOnFailedStatus(projectFound, connectionFound) ==
    IF ~projectFound \/ ~connectionFound THEN 404
    ELSE IF \E p \in DOMAIN syncStatuses : syncStatuses[p].status = "FAILED" THEN 500
    ELSE 200

\* The status the start-sync route answers with.
StartSyncResponse(projectFound, connectionFound) ==
    IF ~projectFound \/ ~connectionFound THEN 404 ELSE 200

\* POST /api/migration-projects/:id/start-sync
StartSync(id) ==
    LET projectFound == MigrationProjectExists(migrationProjects, id)
        connectionFound ==
            /\ projectFound
            /\ migrationProjects[id].repositoryConnectionId \in DOMAIN repositoryConnections
    IN  /\ last' = Response("start-sync", id, StartSyncResponse(projectFound, connectionFound))
        /\ IF projectFound /\ connectionFound
           THEN /\ Len(timers) < MaxTimers
                /\ timers' = startRealTimeSync(timers, id)
                /\ syncStatuses' =
                       updateSyncStatus(syncStatuses, id,
                                        [syncType |-> "INCREMENTAL", status |-> "SYNCING",
                                         itemsProcessed |-> 0], now)
           ELSE UNCHANGED <<timers, syncStatuses>>
        /\ UNCHANGED <<callObjects, callResult, pendingTests>>
        /\ UNCHANGED <<repositoryConnections, migrationProjects, powerCenterObjects,
                       assessmentResults, pendingDiscoveries, nextId, now>>

\* The setInterval callback of timer t, with the probe's outcome.  It answers
\* no request: last keeps the response of the handler that ran before.
SyncCycle(t, outcome) ==
    /\ timers[t].interval = "active"
    /\ timers[t].cycles < MaxCycles
    /\ timers' = [timers EXCEPT ![t].cycles = @ + 1]
    /\ syncStatuses' =
           IF CallsOnUpdate(outcome)
           THEN updateSyncStatus(syncStatuses, timers[t].projectId,
                                 onUpdate(CallbackUpdate(outcome), now), now)
           ELSE syncStatuses
    /\ UNCHANGED <<callObjects, callResult, pendingTests>>
    /\ UNCHANGED <<repositoryConnections, migrationProjects, powerCenterObjects,
                   assessmentResults, pendingDiscoveries, nextId, now, last>>

\* The setTimeout callback of timer t: 24 hours after the call.
LifetimeExpire(t) ==
    /\ ~timers[t].lifetimeFired
    /\ timers' = clearInterval([timers EXCEPT ![t].lifetimeFired = TRUE], t)
    /\ UNCHANGED <<callObjects, callResult, pendingTests>>
    /\ UNCHANGED <<repositoryConnections, migrationProjects, powerCenterObjects,
                   assessmentResults, syncStatuses, pendingDiscoveries, nextId,
                   now, last>>

\* Time passes.
Tick ==
    /\ now < MaxTime
    /\ now' = now + 1
    /\ UNCHANGED <<callObjects, callResult, pendingTests>>
    /\ UNCHANGED <<repositoryConnections, migrationProjects, powerCenterObjects,
                   assessmentResults, syncStatuses, timers, pendingDiscoveries,
                   nextId, last>>

----------------------------------------------------------------------------
(* Discovery: the adapters of PowerCenterService and the discover route.   *)
(*                                                                         *)
(* A raw payload is what the repository holds, one list per kind.  A list  *)
(* field of a raw record (sessions, dependencies, transformations) is kept *)
(* as its length, which is all the code reads of it; object and folder     *)
(* names are left out.  An expression is its sequence of tokens.           *)

SeqsOfLen(S, k) == [1..k -> S]

WorkflowRaws ==
    { [sessions |-> 0, dependencies |-> 0],
      [sessions |-> 2, dependencies |-> 0],
      [sessions |-> 2, dependencies |-> 4] }
MappingRaws == { [transformations |-> 0], [transformations |-> 6] }
SessionRaws == { [sessionType |-> "session"] }
TransformationTypes == {"XML_PARSER", "MQSERIES", "EXPRESSION"}
Expressions == { <<"DECODE", "STATUS">>, <<"IIF", "STATUS">> }
TransformationRaws ==
    { [type |-> ty, expressions |-> <<>>] : ty \in TransformationTypes }
        \cup { [type |-> "EXPRESSION", expressions |-> <<x>>] : x \in Expressions }
SourceRaws == { [type |-> "ORACLE"] }
TargetRaws == { [type |-> "ORACLE"] }

PayloadSize(p) ==
    Len(p.workflows) + Len(p.mappings) + Len(p.sessions)
        + Len(p.transformations) + Len(p.sources) + Len(p.targets)

\* Every payload of at most max raw records.
PayloadsUpTo(max) ==
    LET Counts == { c \in [1..6 -> 0..max] : c[1] + c[2] + c[3] + c[4] + c[5] + c[6] <= max }
    IN  UNION { [workflows : SeqsOfLen(WorkflowRaws, c[1]),
                 mappings : SeqsOfLen(MappingRaws, c[2]),
                 sessions : SeqsOfLen(SessionRaws, c[3]),
                 transformations : SeqsOfLen(TransformationRaws, c[4]),
                 sources : SeqsOfLen(SourceRaws, c[5]),
                 targets : SeqsOfLen(TargetRaws, c[6])] : c \in Counts }

\* PayloadsOfSize[k]: the payloads of at most k raw records, k <= MaxPayload.
PayloadsOfSize == [k \in 0..MaxPayload |-> PayloadsUpTo(k)]

Min(a, b) == IF a <= b THEN a ELSE b

\* The payloads that still fit the bound on stored objects.
Payloads == PayloadsOfSize[Min(MaxPayload, MaxStored - Len(powerCenterObjects))]

EmptyPayload ==
    [workflows |-> <<>>, mappings |-> <<>>, sessions |-> <<>>,
     transformations |-> <<>>, sources |-> <<>>, targets |-> <<>>]

\* The payloads of the specification that follows the sync monitor.
BasicPayloads ==
    { EmptyPayload, [EmptyPayload EXCEPT !.sessions = <<[sessionType |-> "session"]>>] }

calculateComplexity(object) ==
    LET count(f) == IF f \in DOMAIN object THEN object[f] ELSE 0
        componentCount == count("transformations") + count("sessions") + count("dependencies")
    IN  IF componentCount = 0 THEN "SIMPLE"
        ELSE IF componentCount <= 5 THEN "MEDIUM"
        ELSE "COMPLEX"

\* get<Kind>ViaRest: the record of each kind as the REST adapter returns it.
RestWorkflow(wf) ==
    [sessions |-> wf.sessions, dependencies |-> wf.dependencies,
     complexity |-> calculateComplexity(wf), metadata |-> wf]
RestMapping(m) ==
    [transformations |-> m.transformations,
     complexity |-> calculateComplexity(m), metadata |-> m]
RestTransformation(tr) ==
    [type |-> tr.type, expressions |-> tr.expressions, metadata |-> tr]
RestOther(r) == [metadata |-> r]

discoverRepositoryViaRest(raw) ==
    [workflows |-> [i \in DOMAIN raw.workflows |-> RestWorkflow(raw.workflows[i])],
     mappings |-> [i \in DOMAIN raw.mappings |-> RestMapping(raw.mappings[i])],
     sessions |-> [i \in DOMAIN raw.sessions |-> RestOther(raw.sessions[i])],
     transformations |-> [i \in DOMAIN raw.transformations |-> RestTransformation(raw.transformations[i])],
     sources |-> [i \in DOMAIN raw.sources |-> RestOther(raw.sources[i])],
     targets |-> [i \in DOMAIN raw.targets |-> RestOther(raw.targets[i])]]

\* parsePmrep<Kind>Output: one record per listed line.  The line gives the
\* name, the folder and, for a transformation, the type; the parsers fill in
\* empty lists and the complexity MEDIUM.
PmrepWorkflow(wf) ==
    [sessions |-> 0, dependencies |-> 0, complexity |-> "MEDIUM",
     metadata |-> [rawOutput |-> "line"]]
PmrepMapping(m) ==
    [transformations |-> 0, complexity |-> "MEDIUM",
     metadata |-> [rawOutput |-> "line"]]
\* The line of a transformation holds its type (parts[2]), so rawOutput
\* keeps it.
PmrepTransformation(tr) ==
    [type |-> tr.type, expressions |-> <<>>, metadata |-> [rawOutput |-> tr.type]]
PmrepOther(r) == [metadata |-> [rawOutput |-> "line"]]

discoverRepositoryViaPmrep(raw) ==
    [workflows |-> [i \in DOMAIN raw.workflows |-> PmrepWorkflow(raw.workflows[i])],
     mappings |-> [i \in DOMAIN raw.mappings |-> PmrepMapping(raw.mappings[i])],
     sessions |-> [i \in DOMAIN raw.sessions |-> PmrepOther(raw.sessions[i])],
     transformations |-> [i \in DOMAIN raw.transformations |-> PmrepTransformation(raw.transformations[i])],
     sources |-> [i \in DOMAIN raw.sources |-> PmrepOther(raw.sources[i])],
     targets |-> [i \in DOMAIN raw.targets |-> PmrepOther(raw.targets[i])]]

\* The discover route: migrationStatus and automationCoverage of each kind.
FixedClassification_LowWorkflow(objectType) ==
    CASE objectType = "WORKFLOW" -> [migrationStatus |-> "FULLY_AUTO", automationCoverage |-> 75]
      [] objectType = "MAPPING" -> [migrationStatus |-> "FULLY_AUTO", automationCoverage |-> 90]
      [] OTHER -> [migrationStatus |-> "FULLY_AUTO", automationCoverage |-> 95]

FixedClassification(objectType) ==
    CASE objectType = "WORKFLOW" -> [migrationStatus |-> "FULLY_AUTO", automationCoverage |-> 85]
      [] objectType = "MAPPING" -> [migrationStatus |-> "FULLY_AUTO", automationCoverage |-> 90]
      [] OTHER -> [migrationStatus |-> "FULLY_AUTO", automationCoverage |-> 95]

TransformationClassification_Partial70(type) ==
    [migrationStatus |-> IF type = "XML_PARSER" THEN "MANUAL_REDESIGN" ELSE "PARTIAL",
     automationCoverage |-> IF type = "XML_PARSER" THEN 20 ELSE 70]

TransformationClassification(type) ==
    [migrationStatus |-> IF type = "XML_PARSER" THEN "MANUAL_REDESIGN" ELSE "PARTIAL",
     automationCoverage |-> IF type = "XML_PARSER" THEN 20 ELSE 75]

\* The object the discover route builds from one adapter record.
ToObject(projectId, objectType, r) ==
    LET class == IF objectType = "TRANSFORMATION"
                 THEN TransformationClassification(r.type)
                 ELSE FixedClassification(objectType)
    IN  [projectId |-> projectId,
         objectType |-> objectType,
         complexity |-> CASE objectType \in {"WORKFLOW", "MAPPING"} -> r.complexity
                          [] objectType = "TRANSFORMATION" -> "MEDIUM"
                          [] OTHER -> "SIMPLE",
         migrationStatus |-> class.migrationStatus,
         automationCoverage |-> class.automationCoverage,
         dependencies |-> IF objectType = "WORKFLOW" THEN r.dependencies ELSE 0,
         metadata |-> r.metadata]

AllObjects(projectId, result) ==
    LET of(objectType, list) == [i \in DOMAIN list |-> ToObject(projectId, objectType, list[i])]
    IN  of("WORKFLOW", result.workflows) \o of("MAPPING", result.mappings)
        \o of("SESSION", result.sessions) \o of("TRANSFORMATION", result.transformations)
        \o of("SOURCE", result.sources) \o of("TARGET", result.targets)

\* MemStorage.bulkCreatePowerCenterObjects: one createPowerCenterObject each.
bulkCreatePowerCenterObjects(stored, objects) == stored \o objects

\* MemStorage.getPowerCenterObjects
getPowerCenterObjects(stored, projectId) ==
    SelectSeq(stored, LAMBDA o : o.projectId = projectId)

CountFullyAuto(objects) ==
    Cardinality({ i \in DOMAIN objects : objects[i].migrationStatus = "FULLY_AUTO" })

\* Math.round((fullyAuto / totalObjects) * 100): 0 / 0 is NaN.
AutoMigrationPercentage(objects) ==
    IF Len(objects) = 0 THEN NaN
    ELSE Num(MathRound(CountFullyAuto(objects) * 100, Len(objects)))

\* POST /api/migration-projects/:id/discover, up to the adapter call.  The
\* connection is read here and handed to the adapter.
DiscoverBegin(id) ==
    LET projectFound == MigrationProjectExists(migrationProjects, id)
        connectionFound ==
            /\ projectFound
            /\ migrationProjects[id].repositoryConnectionId \in DOMAIN repositoryConnections
    IN  /\ IF projectFound /\ connectionFound
           THEN /\ Len(pendingDiscoveries) < MaxPending
                /\ migrationProjects' =
                       updateMigrationProject(migrationProjects, id, [status |-> "DISCOVERY"])
                /\ pendingDiscoveries' =
                       Append(pendingDiscoveries,
                              [projectId |-> id,
                               connectionType |->
                                   repositoryConnections[migrationProjects[id].repositoryConnectionId].connectionType])
                /\ last' = last
           ELSE /\ last' = Response("discover", id, 404)
                /\ UNCHANGED <<migrationProjects, pendingDiscoveries>>
        /\ UNCHANGED <<callObjects, callResult, pendingTests>>
        /\ UNCHANGED <<repositoryConnections, powerCenterObjects, assessmentResults,
                       syncStatuses, timers, nextId, now>>

RemoveAt(seq, i) == SubSeq(seq, 1, i - 1) \o SubSeq(seq, i + 1, Len(seq))

\* The adapter of pending request i throws (authentication or pmrep connect
\* failed): the catch block of the route.  Its updateMigrationProject throws
\* again when the project is gone, and then no response is sent (code 0).
DiscoverFail(i) ==
    LET id == pendingDiscoveries[i].projectId
    IN  /\ pendingDiscoveries' = RemoveAt(pendingDiscoveries, i)
        /\ IF MigrationProjectExists(migrationProjects, id)
           THEN /\ migrationProjects' =
                       updateMigrationProject(migrationProjects, id, [status |-> "DISCOVERY"])
                /\ last' = Response("discover", id, 500)
           ELSE /\ migrationProjects' = migrationProjects
                /\ last' = Response("discover", id, 0)
        /\ UNCHANGED <<callObjects, callResult, pendingTests>>
        /\ UNCHANGED <<repositoryConnections, powerCenterObjects, assessmentResults,
                       syncStatuses, timers, nextId, now>>

\* The adapter of pending request i returns the payload raw: the rest of the
\* route.  The objects are stored before the project is updated, so they stay
\* when the project is gone and updateMigrationProject throws.
DiscoverEnd(i, raw) ==
    LET id == pendingDiscoveries[i].projectId
        discoveryResult ==
            IF pendingDiscoveries[i].connectionType = "REST_API"
            THEN discoverRepositoryViaRest(raw)
            ELSE discoverRepositoryViaPmrep(raw)
        allObjects == AllObjects(id, discoveryResult)
        totalObjects == Len(allObjects)
    IN  /\ Len(powerCenterObjects) + PayloadSize(raw) <= MaxStored
        /\ pendingDiscoveries' = RemoveAt(pendingDiscoveries, i)
        /\ powerCenterObjects' = bulkCreatePowerCenterObjects(powerCenterObjects, allObjects)
        /\ IF MigrationProjectExists(migrationProjects, id)
           THEN /\ migrationProjects' =
                       updateMigrationProject(migrationProjects, id,
                           [status |-> "ASSESSMENT", totalObjects |-> totalObjects,
                            autoMigrationPercentage |-> AutoMigrationPercentage(allObjects)])
                /\ syncStatuses' =
                       updateSyncStatus(syncStatuses, id,
                                        [syncType |-> "FULL", status |-> "COMPLETED",
                                         itemsProcessed |-> totalObjects], now)
                /\ last' = Response("discover", id, 200)
           ELSE /\ UNCHANGED <<migrationProjects, syncStatuses>>
                /\ last' = Response("discover", id, 0)
        /\ UNCHANGED <<callObjects, callResult, pendingTests>>
        /\ UNCHANGED <<repositoryConnections, assessmentResults, timers, nextId, now>>

----------------------------------------------------------------------------
(* Assessment: PowerCenterService.assessMigrationComplexity and the assess *)
(* route.  automationScore moves in steps of 0.5: Score2 is twice it.      *)

IsUnsupported(object) == Get(object, "type") \in {"XML_PARSER", "MQSERIES"}

HasDecode(object) ==
    /\ "expressions" \in DOMAIN object
    /\ \E i \in DOMAIN object.expressions :
           \E j \in DOMAIN object.expressions[i] : object.expressions[i][j] = "DECODE"

ObjectIssues(object) ==
    (IF Get(object, "type") = "XML_PARSER" THEN <<"Unsupported transformation (XML Parser)">>
     ELSE IF Get(object, "type") = "MQSERIES" THEN <<"Unsupported transformation (MQSeries)">>
     ELSE <<>>)
    \o (IF HasDecode(object) THEN <<"Complex expression requiring manual conversion">>
        ELSE <<>>)

RECURSIVE Issues(_)
Issues(objects) ==
    IF objects = <<>> THEN <<>>
    ELSE ObjectIssues(Head(objects)) \o Issues(Tail(objects))

AutomationScore2(objects) ==
    2 * Cardinality({ i \in DOMAIN objects : ~IsUnsupported(objects[i]) })
        - Cardinality({ i \in DOMAIN objects : HasDecode(objects[i]) })

Max(a, b) == IF a >= b THEN a ELSE b

\* (automationScore / totalObjects) * 100 is computed in IEEE 754 doubles: the
\* quotient is rounded to 53 bits, and so is the product.  automationScore is
\* a multiple of 0.5 and is exact.  With p = 2 * automationScore and
\* d = 2 * totalObjects, 0 < p <= d, the operators below give the sign of
\* (the computed product) - (100 * p / d).  The difference is below 2^-40, far
\* less than 1 / (2 * d), so a comparison with an integer and Math.round
\* differ from their exact values only when 100 * p / d is that integer, or
\* an integer and a half, and the sign says which way the double fell.
RECURSIVE Pow2Mod(_, _)
Pow2Mod(e, d) == IF e = 0 THEN 1 % d ELSE (2 * Pow2Mod(e - 1, d)) % d

\* The least j with p * 2^j >= d: the quotient's mantissa is p * 2^(52+j) / d.
RECURSIVE LeastShift(_, _)
LeastShift(p, d) == IF p >= d THEN 0 ELSE 1 + LeastShift(2 * p, d)

\* d * (mantissa of the quotient) - p * 2^(52+j): the quotient's rounding
\* error in units of 1 / d.  A tie needs a quotient of more than 53 bits with
\* a power of two as denominator, which no d below 2^52 gives.
QuotientError(p, d) ==
    LET rem == (p * Pow2Mod(52 + LeastShift(p, d), d)) % d
    IN  IF 2 * rem < d THEN 0 - rem ELSE d - rem

\* The product's mantissa is the quotient's mantissa times 100, shifted right
\* by k = 6 or 7 bits and rounded to nearest, ties to even.
ProductShift(p, d) ==
    LET j == LeastShift(p, d)
        lead == 100 * p * (2 ^ j) - 128 * d
    IN  IF lead > 0 \/ (lead = 0 /\ QuotientError(p, d) >= 0) THEN 7 ELSE 6

\* Sign of fl(fl(p / d) * 100) - 100 * p / d.
ProductErrorSign(p, d) ==
    LET e == 52 + LeastShift(p, d)
        k == ProductShift(p, d)
        D == d * (2 ^ k)
        qe == QuotientError(p, d)
        \* N = d * (quotient's mantissa) * 100 = 100 * p * 2^e + 100 * qe
        NmodD == (100 * p * Pow2Mod(e, D) + 100 * qe) % D
        Nmod2D == (100 * p * Pow2Mod(e, 2 * D) + 100 * qe) % (2 * D)
        floorOdd == Nmod2D >= D
        up == 2 * NmodD > D \/ (2 * NmodD = D /\ floorOdd)
        err == (IF up THEN D - NmodD ELSE 0 - NmodD) + 100 * qe
    IN  IF err > 0 THEN 1 ELSE IF err < 0 THEN 0 - 1 ELSE 0

\* automationCoverage > pct, on the unrounded double.
CoverageOver(p, d, pct) ==
    \/ 100 * p > pct * d
    \/ 100 * p = pct * d /\ ProductErrorSign(p, d) > 0

\* Math.round of the unrounded double: floor(x + 0.5).
CoverageRound(p, d) ==
    LET exact == (200 * p + d) \div (2 * d)
        halfway == (200 * p + d) % (2 * d) = 0
    IN  IF halfway /\ ProductErrorSign(p, d) < 0 THEN exact - 1 ELSE exact

assessMigrationComplexity(objects) ==
    LET totalObjects == Len(objects)
        score2 == AutomationScore2(objects)
        \* Math.max(0, ...) of a negative or zero quotient is 0.
        positive == totalObjects > 0 /\ score2 > 0
        over(pct) == positive /\ CoverageOver(score2, 2 * totalObjects, pct)
    IN  [complexity |-> IF over(80) THEN "SIMPLE" ELSE IF over(50) THEN "MEDIUM" ELSE "COMPLEX",
         automationCoverage |->
             IF positive THEN CoverageRound(score2, 2 * totalObjects) ELSE 0,
         issues |-> Issues(objects)]

\* MemStorage.createAssessmentResult: a new entry under a fresh id.
createAssessmentResult_Overwrites(results, result) == <<result>>

createAssessmentResult(results, result) == Append(results, result)

\* MemStorage.getAssessmentResults
getAssessmentResults(results, projectId) ==
    SelectSeq(results, LAMBDA r : r.projectId = projectId)

\* POST /api/migration-projects/:id/assess.  The route does not look the
\* project up.
Assess(id) ==
    LET objects == getPowerCenterObjects(powerCenterObjects, id)
        assessment == assessMigrationComplexity(objects)
    IN  /\ Len(assessmentResults) < MaxResults
        /\ assessmentResults' =
               createAssessmentResult(assessmentResults,
                      [projectId |-> id,
                       assessmentType |-> "COMPLEXITY",
                       result |-> assessment.complexity,
                       confidence |-> 85,
                       recommendations |-> assessment.issues,
                       issues |-> [automationCoverage |-> assessment.automationCoverage],
                       estimatedEffort |-> MathCeil(Len(objects) * 2, 1)])
        /\ last' = Response("assess", id, 200)
        /\ UNCHANGED <<callObjects, callResult, pendingTests>>
        /\ UNCHANGED <<repositoryConnections, migrationProjects, powerCenterObjects,
                       syncStatuses, timers, pendingDiscoveries, nextId, now>>

----------------------------------------------------------------------------
(* The remaining routes: connection test, project update, object creation. *)

\* res.json({ connected: isConnected })
TestResponse(id, code, connected) ==
    [op |-> "test", id |-> id, code |-> code, connected |-> connected]

\* POST /api/repository-connections/:id/test, up to the probe.
TestBegin(id) ==
    /\ IF id \in DOMAIN repositoryConnections
       THEN /\ Len(pendingTests) < MaxTests
            /\ pendingTests' = Append(pendingTests, id)
            /\ last' = last
       ELSE /\ pendingTests' = pendingTests
            /\ last' = Response("test", id, 404)
    /\ UNCHANGED <<repositoryConnections, migrationProjects, powerCenterObjects,
                   assessmentResults, syncStatuses, timers, pendingDiscoveries,
                   nextId, now, callObjects, callResult>>

\* testRestConnection / testPmrepConnection have returned isConnected (they
\* catch every error and return false).  updateRepositoryConnection throws
\* when the connection was deleted meanwhile, and the route answers 500.
TestEnd(i, isConnected) ==
    LET id == pendingTests[i]
        found == id \in DOMAIN repositoryConnections
    IN  /\ pendingTests' = RemoveAt(pendingTests, i)
        /\ repositoryConnections' =
               IF isConnected /\ found
               THEN updateRepositoryConnection(repositoryConnections, id,
                        [isActive |-> TRUE, lastConnected |-> Date(now)])
               ELSE repositoryConnections
        /\ last' = TestResponse(id, IF isConnected /\ ~found THEN 500 ELSE 200, isConnected)
        /\ UNCHANGED <<migrationProjects, powerCenterObjects, assessmentResults,
                       syncStatuses, timers, pendingDiscoveries, nextId, now,
                       callObjects, callResult>>

\* The status values a project can be given.
ProjectStatuses == {"DISCOVERY", "ASSESSMENT", "MIGRATION", "COMPLETED"}

\* PUT /api/migration-projects/:id with body { status }.  The body is not
\* validated; updateMigrationProject throws for an unknown id (400).
UpdateProject(id, status) ==
    /\ IF MigrationProjectExists(migrationProjects, id)
       THEN /\ migrationProjects' =
                   updateMigrationProject(migrationProjects, id, [status |-> status])
            /\ last' = Response("update-project", id, 200)
       ELSE /\ migrationProjects' = migrationProjects
            /\ last' = Response("update-project", id, 400)
    /\ UNCHANGED <<repositoryConnections, powerCenterObjects, assessmentResults,
                   syncStatuses, timers, pendingDiscoveries, nextId, now,
                   callObjects, callResult, pendingTests>>

\* insertPowerCenterObjectSchema.parse: each field is checked on its own.
MigrationStatuses == {"FULLY_AUTO", "PARTIAL", "MANUAL_REDESIGN"}

insertPowerCenterObjectSchema(body) ==
    /\ body.objectType \in {"WORKFLOW", "MAPPING", "SESSION", "TRANSFORMATION",
                             "SOURCE", "TARGET"}
    /\ body.complexity \in {"SIMPLE", "MEDIUM", "COMPLEX"}
    /\ body.migrationStatus \in MigrationStatuses
    /\ body.automationCoverage >= 0
    /\ body.automationCoverage <= 100

\* MemStorage.createPowerCenterObject
createPowerCenterObject(stored, object) == Append(stored, object)

\* The bodies sent to POST /api/powercenter-objects.
PostedStatuses == MigrationStatuses \cup {"AUTO"}
PostedCoverages == {0 - 1, 0, 30, 31, 79, 80, 100, 101}

\* POST /api/powercenter-objects
CreateObject(projectId, migrationStatus, automationCoverage) ==
    LET body == [projectId |-> projectId, objectType |-> "MAPPING",
                 complexity |-> "SIMPLE", migrationStatus |-> migrationStatus,
                 automationCoverage |-> automationCoverage, dependencies |-> 0,
                 metadata |-> [posted |-> TRUE]]
    IN  /\ IF insertPowerCenterObjectSchema(body)
           THEN /\ Len(powerCenterObjects) < MaxStored
                /\ powerCenterObjects' = createPowerCenterObject(powerCenterObjects, body)
                /\ last' = Response("create-object", projectId, 201)
           ELSE /\ powerCenterObjects' = powerCenterObjects
                /\ last' = Response("create-object", projectId, 400)
        /\ UNCHANGED <<repositoryConnections, migrationProjects, assessmentResults,
                       syncStatuses, timers, pendingDiscoveries, nextId, now,
                       callObjects, callResult, pendingTests>>

----------------------------------------------------------------------------
(* The adapters step by step: what each call to the repository does to a   *)
(* discover request in flight.                                             *)

Kinds == {"workflows", "mappings", "sessions", "transformations", "sources", "targets"}

\* One get<Kind>ViaRest call: the response is ok, the response is not ok
\* (the call returns []), or fetch / response.json() rejects.
AllReadsOk == [k \in Kinds |-> "ok"]
ReadOutcomes ==
    {AllReadsOk} \cup { [AllReadsOk EXCEPT ![k] = o] : k \in Kinds, o \in {"notOk", "throws"} }

\* The six lists of Promise.all when no call rejects.
RestReads(raw, reads) == [k \in Kinds |-> IF reads[k] = "ok" THEN raw[k] ELSE <<>>]

\* authenticateRest throws on a response that is not ok; Promise.all rejects
\* when one of its calls does; the catch block of the adapter rethrows.
RestThrows(authOk, reads) == ~authOk \/ \E k \in Kinds : reads[k] = "throws"

\* The repositories of the adapter specification.
AdapterPayloads ==
    { EmptyPayload,
      [EmptyPayload EXCEPT !.workflows = <<[sessions |-> 2, dependencies |-> 0]>>,
                           !.sessions = <<[sessionType |-> "session"]>>,
                           !.transformations = <<[type |-> "EXPRESSION",
                                                  expressions |-> <<>>]>>] }

\* discoverRepositoryViaRest has settled for pending request i.
RestDiscover(i, raw, authOk, reads) ==
    /\ pendingDiscoveries[i].connectionType = "REST_API"
    /\ IF RestThrows(authOk, reads)
       THEN DiscoverFail(i)
       ELSE DiscoverEnd(i, RestReads(raw, reads))

\* pmrep connect has exited for pending request i.  On success Promise.all
\* calls the six get<Kind>ViaPmrep, and each runs up to its await
\* execAsync(...): six list processes are in flight.
PmrepConnectDone(i, ok) ==
    /\ pendingDiscoveries[i].connectionType = "PMREP"
    /\ "inFlight" \notin DOMAIN pendingDiscoveries[i]
    /\ IF ok
       THEN /\ pendingDiscoveries' =
                   [pendingDiscoveries EXCEPT
                       ![i] = Spread(@, [inFlight |-> Kinds, failed |-> {}])]
            /\ UNCHANGED <<repositoryConnections, migrationProjects, powerCenterObjects,
                           assessmentResults, syncStatuses, timers, nextId, now, last,
                           callObjects, callResult, pendingTests>>
       ELSE DiscoverFail(i)

\* The list process of one kind has exited.  A failed one is caught and gives
\* []; when the last one exits the adapter returns and the route goes on.
PmrepListDone(i, kind, ok, raw) ==
    /\ pendingDiscoveries[i].connectionType = "PMREP"
    /\ "inFlight" \in DOMAIN pendingDiscoveries[i]
    /\ kind \in pendingDiscoveries[i].inFlight
    /\ LET failed == pendingDiscoveries[i].failed \cup (IF ok THEN {} ELSE {kind})
       IN  IF pendingDiscoveries[i].inFlight = {kind}
           THEN DiscoverEnd(i, [k \in Kinds |-> IF k \in failed THEN <<>> ELSE raw[k]])
           ELSE /\ pendingDiscoveries' =
                       [pendingDiscoveries EXCEPT ![i].inFlight = @ \ {kind},
                                                  ![i].failed = failed]
                /\ UNCHANGED <<repositoryConnections, migrationProjects,
                               powerCenterObjects, assessmentResults, syncStatuses,
                               timers, nextId, now, last, callObjects, callResult,
                               pendingTests>>

----------------------------------------------------------------------------

Init ==
    /\ repositoryConnections = <<>>
    /\ migrationProjects = <<>>
    /\ powerCenterObjects = <<>>
    /\ assessmentResults = <<>>
    /\ syncStatuses = <<>>
    /\ timers = <<>>
    /\ pendingDiscoveries = <<>>
    /\ nextId = [project |-> 1, connection |-> 1]
    /\ now = 0
    /\ last = Response("none", 0, 0)
    /\ callObjects = <<>>
    /\ callResult = NoResult
    /\ pendingTests = <<>>

Next ==
    \/ \E type \in ConnectionTypes : CreateConnection(type)
    \/ \E id \in ConnectionIds : DeleteConnection(id)
    \/ \E c \in ConnectionIds : CreateProject(c)
    \/ \E id \in ProjectIds : DeleteProject(id)
    \/ \E id \in ProjectIds : StartSync(id)
    \/ \E t \in DOMAIN timers, outcome \in ProbeOutcomes : SyncCycle(t, outcome)
    \/ \E t \in DOMAIN timers : LifetimeExpire(t)
    \/ \E id \in ProjectIds : DiscoverBegin(id)
    \/ \E i \in DOMAIN pendingDiscoveries : DiscoverFail(i)
    \/ \E i \in DOMAIN pendingDiscoveries, raw \in BasicPayloads : DiscoverEnd(i, raw)
    \/ Tick

\* The sync monitor beside the storage routes and discovery, with discovery
\* payloads of at most one object.
Spec == Init /\ [][Next]_vars

NextAssess ==
    \/ \E type \in ConnectionTypes : CreateConnection(type)
    \/ \E c \in ConnectionIds : CreateProject(c)
    \/ \E id \in ProjectIds : DiscoverBegin(id)
    \/ \E i \in DOMAIN pendingDiscoveries : DiscoverFail(i)
    \/ \E i \in DOMAIN pendingDiscoveries, raw \in Payloads : DiscoverEnd(i, raw)
    \/ \E id \in ProjectIds : Assess(id)

\* Discovery and assessment alone, with every payload up to MaxPayload.
SpecAssess == Init /\ [][NextAssess]_vars

NextAdmin ==
    \/ \E type \in ConnectionTypes : CreateConnection(type)
    \/ \E id \in ConnectionIds : DeleteConnection(id)
    \/ \E id \in ConnectionIds : TestBegin(id)
    \/ \E i \in DOMAIN pendingTests, isConnected \in BOOLEAN : TestEnd(i, isConnected)
    \/ \E c \in ConnectionIds : CreateProject(c)
    \/ \E id \in ProjectIds, status \in ProjectStatuses : UpdateProject(id, status)
    \/ \E id \in ProjectIds : StartSync(id)
    \/ \E id \in ProjectIds : DiscoverBegin(id)
    \/ \E i \in DOMAIN pendingDiscoveries : DiscoverFail(i)
    \/ \E i \in DOMAIN pendingDiscoveries, raw \in BasicPayloads : DiscoverEnd(i, raw)
    \/ Tick

\* The connection test and the project update beside discovery and
\* start-sync.
SpecAdmin == Init /\ [][NextAdmin]_vars

NextObjects ==
    \/ \E type \in ConnectionTypes : CreateConnection(type)
    \/ \E c \in ConnectionIds : CreateProject(c)
    \/ \E id \in ProjectIds : DiscoverBegin(id)
    \/ \E i \in DOMAIN pendingDiscoveries : DiscoverFail(i)
    \/ \E i \in DOMAIN pendingDiscoveries, raw \in BasicPayloads : DiscoverEnd(i, raw)
    \/ \E id \in ProjectIds, st \in PostedStatuses, cov \in PostedCoverages :
           CreateObject(id, st, cov)

\* Direct object creation beside discovery.
SpecObjects == Init /\ [][NextObjects]_vars

NextAdapter ==
    \/ \E type \in ConnectionTypes : CreateConnection(type)
    \/ \E c \in ConnectionIds : CreateProject(c)
    \/ \E id \in ProjectIds : DiscoverBegin(id)
    \/ \E i \in DOMAIN pendingDiscoveries, raw \in AdapterPayloads,
          authOk \in BOOLEAN, reads \in ReadOutcomes : RestDiscover(i, raw, authOk, reads)
    \/ \E i \in DOMAIN pendingDiscoveries, ok \in BOOLEAN : PmrepConnectDone(i, ok)
    \/ \E i \in DOMAIN pendingDiscoveries, kind \in Kinds, ok \in BOOLEAN,
          raw \in AdapterPayloads : PmrepListDone(i, kind, ok, raw)

\* Discovery with the adapters' calls as steps.
SpecAdapter == Init /\ [][NextAdapter]_vars

----------------------------------------------------------------------------
(* assessMigrationComplexity called directly, on any list of objects.  The *)
(* function reads type and expressions of each object and nothing else, so *)
(* the lists are built from the four objects that differ in what it reads. *)

Rep(n, x) == [i \in 1..n |-> x]

CallObjectLists ==
    LET Counts == { c \in [1..4 -> 0..MaxCallObjects] :
                        c[1] + c[2] + c[3] + c[4] <= MaxCallObjects }
    IN  { Rep(c[1], [type |-> "MQSERIES", expressions |-> <<>>])
            \o Rep(c[2], [name |-> "m"])
            \o Rep(c[3], [type |-> "EXPRESSION", expressions |-> << <<"DECODE", "STATUS">> >>])
            \o Rep(c[4], [type |-> "XML_PARSER", expressions |-> << <<"DECODE", "STATUS">> >>])
          : c \in Counts }

InitCall ==
    /\ repositoryConnections = <<>>
    /\ migrationProjects = <<>>
    /\ powerCenterObjects = <<>>
    /\ assessmentResults = <<>>
    /\ syncStatuses = <<>>
    /\ timers = <<>>
    /\ pendingDiscoveries = <<>>
    /\ nextId = [project |-> 1, connection |-> 1]
    /\ now = 0
    /\ last = Response("none", 0, 0)
    /\ callObjects \in CallObjectLists
    /\ callResult = NoResult
    /\ pendingTests = <<>>

\* await powerCenterService.assessMigrationComplexity(callObjects)
AssessCall ==
    /\ callResult = NoResult
    /\ callResult' = assessMigrationComplexity(callObjects)
    /\ UNCHANGED <<repositoryConnections, migrationProjects, powerCenterObjects,
                   assessmentResults, syncStatuses, timers, pendingDiscoveries,
                   nextId, now, last, callObjects, pendingTests>>

NextCall == AssessCall

SpecCall == InitCall /\ [][NextCall]_vars

----------------------------------------------------------------------------
(* The sync monitor (checked under Spec).                                  *)

Syncing(p) == p \in DOMAIN syncStatuses /\ syncStatuses[p].status = "SYNCING"

\* C1: a start-sync call made while the project's status is SYNCING creates
\* no new polling timer and leaves the SyncStatus record unchanged.
C1_StartSyncWhileSyncingIsNoOp ==
    [][\A id \in ProjectIds :
          (Syncing(id) /\ StartSync(id))
              => (timers' = timers /\ syncStatuses' = syncStatuses)]_vars

\* C2: once the lifetime timeout of a timer has fired, no polling cycle of
\* that timer runs any more, and every write to a SyncStatus record is made
\* by a start-sync call, by a discovery or by a cycle of a timer whose
\* lifetime timeout has not fired.
C2_NoCycleAfterLifetime ==
    [][/\ \A t \in DOMAIN timers :
              timers[t].lifetimeFired
                  => (timers'[t].lifetimeFired /\ timers'[t].cycles = timers[t].cycles)
       /\ syncStatuses' # syncStatuses
              => \/ Len(timers') > Len(timers)
                 \/ Len(pendingDiscoveries') < Len(pendingDiscoveries)
                 \/ \E t \in DOMAIN timers :
                        /\ ~timers[t].lifetimeFired
                        /\ timers'[t].cycles = timers[t].cycles + 1]_vars

\* C2 witness: a timer whose lifetime timeout fired after it had polled, with
\* cycles left within the bound, in a project whose record is still there.
C2_Witness ==
    \E t \in DOMAIN timers :
        /\ timers[t].lifetimeFired
        /\ timers[t].interval = "cleared"
        /\ timers[t].cycles >= 1
        /\ timers[t].cycles < MaxCycles
        /\ timers[t].projectId \in DOMAIN syncStatuses
        /\ syncStatuses[timers[t].projectId].status = "FAILED"

\* C3: a polling cycle whose probe raises an error leaves the project's
\* SyncStatus FAILED with the error's message as its error list, and leaves
\* the timer active.
C3_FailedCycleIsRecorded ==
    [][\A t \in DOMAIN timers, m \in ErrorMessages :
          SyncCycle(t, Err(m))
              => /\ syncStatuses'[timers[t].projectId].status = "FAILED"
                 /\ syncStatuses'[timers[t].projectId].errors = <<m>>
                 /\ timers'[t].interval = "active"]_vars

\* C4: a polling cycle whose probe succeeds with n changed items, n >= 0,
\* leaves the project's SyncStatus COMPLETED with itemsProcessed = n and no
\* errors.
C4_SuccessfulCycleIsRecorded ==
    [][\A t \in DOMAIN timers, n \in 0..MaxUpdates :
          SyncCycle(t, Ok(n))
              => /\ syncStatuses'[timers[t].projectId].status = "COMPLETED"
                 /\ syncStatuses'[timers[t].projectId].itemsProcessed = n
                 /\ syncStatuses'[timers[t].projectId].errors = NullErrors]_vars

\* C5: right after a start-sync call that answers 200, the project's
\* SyncStatus reads SYNCING, INCREMENTAL, itemsProcessed 0.
C5_StartSyncWritesSyncing ==
    [][\A id \in ProjectIds :
          (StartSync(id) /\ last'.code = 200)
              => /\ id \in DOMAIN syncStatuses'
                 /\ syncStatuses'[id].status = "SYNCING"
                 /\ syncStatuses'[id].syncType = "INCREMENTAL"
                 /\ syncStatuses'[id].itemsProcessed = 0]_vars

\* C5 witness: start-sync has just answered 200 for a project whose record
\* came from a failed cycle (its error list is still there).
C5_Witness ==
    \E id \in ProjectIds :
        /\ last = Response("start-sync", id, 200)
        /\ id \in DOMAIN syncStatuses
        /\ syncStatuses[id].status = "SYNCING"
        /\ syncStatuses[id].errors # NullErrors

\* C6: a start-sync call for a stored project with a stored connection
\* answers 200 whatever the sync records hold, and no polling cycle or
\* lifetime timeout touches a response.
C6_StartSyncSucceedsOnceScheduled ==
    [][/\ \A id \in ProjectIds :
              ( /\ StartSync(id)
                /\ MigrationProjectExists(migrationProjects, id)
                /\ migrationProjects[id].repositoryConnectionId \in DOMAIN repositoryConnections )
                  => last' = Response("start-sync", id, 200)
       /\ \A t \in DOMAIN timers :
              ((\E o \in ProbeOutcomes : SyncCycle(t, o)) \/ LifetimeExpire(t))
                  => last' = last]_vars

\* C6 witness: start-sync answered 200 after an earlier cycle had failed,
\* and a cycle that failed since shows only in the record.
C6_Witness ==
    \E id \in ProjectIds :
        /\ last = Response("start-sync", id, 200)
        /\ Len(timers) >= 2
        /\ id \in DOMAIN syncStatuses
        /\ syncStatuses[id].status = "FAILED"

----------------------------------------------------------------------------
(* Discovery and assessment (checked under SpecAssess).                    *)

LastResult == assessmentResults[Len(assessmentResults)]

CountOf(objects, P(_)) == Cardinality({ i \in DOMAIN objects : P(objects[i]) })

\* C7: every stored object that discovery classified FULLY_AUTO has coverage
\* at least 80, and every one it classified MANUAL_REDESIGN at most 30.
C7_CoverageMatchesStatus ==
    \A i \in DOMAIN powerCenterObjects :
        LET o == powerCenterObjects[i]
        IN  /\ o.migrationStatus = "FULLY_AUTO" => o.automationCoverage >= 80
            /\ o.migrationStatus = "MANUAL_REDESIGN" => o.automationCoverage <= 30

\* C7 witness: a discovery has stored a workflow, an XML parser transformation
\* and a transformation of another type.
C7_Witness ==
    /\ \E i \in DOMAIN powerCenterObjects : powerCenterObjects[i].objectType = "WORKFLOW"
    /\ \E i \in DOMAIN powerCenterObjects :
           powerCenterObjects[i].migrationStatus = "MANUAL_REDESIGN"
    /\ \E i \in DOMAIN powerCenterObjects : powerCenterObjects[i].migrationStatus = "PARTIAL"

\* The project's stored objects are one XML parser transformation (which
\* discovery stores as MANUAL_REDESIGN) and two mappings.
IsXmlAndTwoMappings(objects) ==
    /\ Len(objects) = 3
    /\ CountOf(objects, LAMBDA o : o.objectType = "TRANSFORMATION"
                                   /\ o.migrationStatus = "MANUAL_REDESIGN") = 1
    /\ CountOf(objects, LAMBDA o : o.objectType = "MAPPING") = 2

\* C8: the assessment of a project whose stored objects are one XML parser
\* transformation and two mappings has automationScore 2, coverage 67, tier
\* MEDIUM, effort 6 hours and one issue.
C8_XmlAndTwoMappings ==
    \A id \in ProjectIds :
        ( /\ last = Response("assess", id, 200)
          /\ MigrationProjectExists(migrationProjects, id)
          /\ IsXmlAndTwoMappings(getPowerCenterObjects(powerCenterObjects, id)) )
            => /\ AutomationScore2(getPowerCenterObjects(powerCenterObjects, id)) = 2 * 2
               /\ LastResult.issues.automationCoverage = 67
               /\ LastResult.result = "MEDIUM"
               /\ LastResult.estimatedEffort = 6
               /\ Len(LastResult.recommendations) = 1

\* C9: after a discovery that returned an empty payload, the project has no
\* stored objects and its totalObjects and autoMigrationPercentage are 0.
C9_EmptyDiscoveryStats ==
    \A id \in DOMAIN migrationProjects :
        ( /\ last = Response("discover", id, 200)
          /\ migrationProjects[id].totalObjects = 0 )
            => /\ getPowerCenterObjects(powerCenterObjects, id) = <<>>
               /\ migrationProjects[id].autoMigrationPercentage = Num(0)

\* C10: the assessment of a project with no stored objects has coverage 0,
\* tier SIMPLE and effort 0.
C10_ZeroObjectAssessment ==
    \A id \in ProjectIds :
        ( /\ last = Response("assess", id, 200)
          /\ MigrationProjectExists(migrationProjects, id)
          /\ getPowerCenterObjects(powerCenterObjects, id) = <<>> )
            => /\ LastResult.issues.automationCoverage = 0
               /\ LastResult.result = "SIMPLE"
               /\ LastResult.estimatedEffort = 0

----------------------------------------------------------------------------
(* Classification and complexity of discovered objects (SpecAssess).       *)

\* What the repository said of a stored object: the REST adapter keeps the
\* whole record as metadata, the pmrep adapter keeps the listed line.
FromPmrep(o) == "rawOutput" \in DOMAIN o.metadata

Subtype(o) == IF FromPmrep(o) THEN o.metadata.rawOutput ELSE o.metadata.type

Pair(o) == <<o.migrationStatus, o.automationCoverage>>

\* C13: every discovered transformation whose subtype the aggregator treats
\* as unsupported (XML_PARSER, MQSERIES) is stored as MANUAL_REDESIGN with
\* coverage 20.
C13_UnsupportedIsManualRedesign ==
    \A i \in DOMAIN powerCenterObjects :
        LET o == powerCenterObjects[i]
        IN  (o.objectType = "TRANSFORMATION" /\ IsUnsupported([type |-> Subtype(o)]))
                => Pair(o) = <<"MANUAL_REDESIGN", 20>>

\* C14: every discovered object other than a transformation of an
\* unsupported subtype carries the pair of its kind: workflow (FULLY_AUTO,
\* 85), mapping (FULLY_AUTO, 90), session, source, target (FULLY_AUTO, 95),
\* other transformation (PARTIAL, 75), whatever its structure and adapter.
C14_FixedPairPerKind ==
    \A i \in DOMAIN powerCenterObjects :
        LET o == powerCenterObjects[i]
        IN  /\ o.objectType = "WORKFLOW" => Pair(o) = <<"FULLY_AUTO", 85>>
            /\ o.objectType = "MAPPING" => Pair(o) = <<"FULLY_AUTO", 90>>
            /\ o.objectType \in {"SESSION", "SOURCE", "TARGET"} => Pair(o) = <<"FULLY_AUTO", 95>>
            /\ (o.objectType = "TRANSFORMATION"
                    /\ Subtype(o) \notin {"XML_PARSER", "MQSERIES"})
                   => Pair(o) = <<"PARTIAL", 75>>

\* C14 witness: the pmrep adapter has stored a workflow, a mapping and a
\* transformation of a supported subtype.
C14_Witness ==
    /\ \E i \in DOMAIN powerCenterObjects :
           powerCenterObjects[i].objectType = "WORKFLOW" /\ FromPmrep(powerCenterObjects[i])
    /\ \E i \in DOMAIN powerCenterObjects : powerCenterObjects[i].objectType = "MAPPING"
    /\ \E i \in DOMAIN powerCenterObjects :
           /\ powerCenterObjects[i].objectType = "TRANSFORMATION"
           /\ Subtype(powerCenterObjects[i]) = "EXPRESSION"

\* Transformations + sessions + dependencies of a discovered workflow or
\* mapping: the pmrep adapter reports none.
ComponentCount(o) ==
    IF FromPmrep(o) THEN 0
    ELSE (o.metadata @@ [transformations |-> 0]).transformations
         + (o.metadata @@ [sessions |-> 0]).sessions
         + (o.metadata @@ [dependencies |-> 0]).dependencies

\* C15: a discovered workflow or mapping is SIMPLE when its component count
\* is 0, MEDIUM when it is 1..5, COMPLEX above 5, from either adapter; every
\* session, source and target is SIMPLE and every transformation MEDIUM.
C15_ComplexityFromComponentCount ==
    \A i \in DOMAIN powerCenterObjects :
        LET o == powerCenterObjects[i]
        IN  /\ o.objectType \in {"WORKFLOW", "MAPPING"} =>
                   o.complexity = (IF ComponentCount(o) = 0 THEN "SIMPLE"
                                   ELSE IF ComponentCount(o) <= 5 THEN "MEDIUM"
                                   ELSE "COMPLEX")
            /\ o.objectType \in {"SESSION", "SOURCE", "TARGET"} => o.complexity = "SIMPLE"
            /\ o.objectType = "TRANSFORMATION" => o.complexity = "MEDIUM"

----------------------------------------------------------------------------
(* What a run persists.                                                    *)

Stats(project) == <<project.totalObjects, project.autoMigrationPercentage>>

C17_RunSupersedesEarlierObjects ==
    [][(/\ Len(pendingDiscoveries') < Len(pendingDiscoveries)
        /\ last'.op = "discover"
        /\ last'.code = 200)
          => getPowerCenterObjects(powerCenterObjects', last'.id)
                 = SubSeq(powerCenterObjects', Len(powerCenterObjects) + 1,
                          Len(powerCenterObjects'))]_vars

\* C18 (SpecAssess): an assessment run adds one AssessmentResult to the
\* project's history and leaves the earlier results, the stored objects and
\* the project records as they were.
C18_AssessAppendsOneResult ==
    [][\A id \in ProjectIds :
          Assess(id)
              => /\ Len(getAssessmentResults(assessmentResults', id))
                        = Len(getAssessmentResults(assessmentResults, id)) + 1
                 /\ Len(assessmentResults') = Len(assessmentResults) + 1
                 /\ SubSeq(assessmentResults', 1, Len(assessmentResults)) = assessmentResults
                 /\ powerCenterObjects' = powerCenterObjects
                 /\ migrationProjects' = migrationProjects
                 /\ repositoryConnections' = repositoryConnections
                 /\ syncStatuses' = syncStatuses]_vars

\* C18 witness: the second assessment of a project with discovered objects
\* has run, and the first result is of the time before the discovery.
C18_Witness ==
    \E id \in DOMAIN migrationProjects :
        /\ last = Response("assess", id, 200)
        /\ Len(getAssessmentResults(assessmentResults, id)) = 2
        /\ assessmentResults[1].estimatedEffort = 0
        /\ assessmentResults[2].estimatedEffort > 0

\* C19 (SpecAssess): discover and assess called with an identifier that names
\* no stored project answer 404 and create or change no stored entity.
C19_UnknownProjectIs404 ==
    [][\A id \in ProjectIds :
          ( /\ ~MigrationProjectExists(migrationProjects, id)
            /\ DiscoverBegin(id) \/ Assess(id) )
              => /\ last'.code = 404
                 /\ UNCHANGED <<repositoryConnections, migrationProjects,
                                powerCenterObjects, assessmentResults, syncStatuses>>]_vars

\* C20 (Spec): once a project is deleted no polling cycle runs for it any
\* more, so that no SyncStatus record is written for it.
C20_NoCycleAfterProjectDeleted ==
    [][\A t \in DOMAIN timers :
          (\E outcome \in ProbeOutcomes : SyncCycle(t, outcome))
              => MigrationProjectExists(migrationProjects, timers[t].projectId)]_vars

----------------------------------------------------------------------------
(* The aggregator as a function (checked under SpecCall).                  *)

Returned == callResult # NoResult

\* C11: assessMigrationComplexity returns automationCoverage =
\* round(max(0, automationScore / totalObjects) * 100), an integer in 0..100,
\* which is 0 for a negative automationScore and for an empty list.
C11_CoverageFormula ==
    Returned =>
        LET totalObjects == Len(callObjects)
            score2 == AutomationScore2(callObjects)
        IN  /\ callResult.automationCoverage \in 0..100
            /\ (totalObjects = 0 \/ score2 < 0) => callResult.automationCoverage = 0
            /\ totalObjects > 0 =>
                   callResult.automationCoverage
                       = MathRound(Max(0, score2) * 100, 2 * totalObjects)

\* C12: the returned tier is the one the returned automationCoverage gives:
\* SIMPLE iff it is above 80, MEDIUM iff above 50 and at most 80, COMPLEX iff
\* at most 50.
C12_TierFollowsReturnedCoverage ==
    Returned =>
        callResult.complexity =
            (IF callResult.automationCoverage > 80 THEN "SIMPLE"
             ELSE IF callResult.automationCoverage > 50 THEN "MEDIUM"
             ELSE "COMPLEX")

----------------------------------------------------------------------------
(* Ownership and shape of the SyncStatus records (checked under Spec).     *)

StatusOf(statuses, p) == IF p \in DOMAIN statuses THEN statuses[p].status ELSE "none"

\* C21: only start-sync and the polling cycles change a SyncStatus record:
\* every step that changes one is a start-sync call or a polling cycle.
C21_OnlyMonitorWritesSyncStatus ==
    [][syncStatuses' # syncStatuses
          => \/ \E id \in ProjectIds : StartSync(id)
             \/ \E t \in DOMAIN timers, outcome \in ProbeOutcomes : SyncCycle(t, outcome)]_vars

\* C22: the status of a project's SyncStatus changes only from none to
\* SYNCING, from SYNCING to COMPLETED or FAILED, and from COMPLETED or FAILED
\* to SYNCING.
C22_StatusTransitions ==
    [][\A p \in ProjectIds :
          StatusOf(syncStatuses', p) # StatusOf(syncStatuses, p)
              => <<StatusOf(syncStatuses, p), StatusOf(syncStatuses', p)>>
                     \in { <<"none", "SYNCING">>,
                           <<"SYNCING", "COMPLETED">>, <<"SYNCING", "FAILED">>,
                           <<"COMPLETED", "SYNCING">>, <<"FAILED", "SYNCING">> }]_vars

\* C23: a SyncStatus record whose status is SYNCING or COMPLETED has no
\* errors; the error list is non-empty only while the status is FAILED.
C23_ErrorsOnlyWhileFailed ==
    \A p \in DOMAIN syncStatuses :
        /\ syncStatuses[p].status \in {"SYNCING", "COMPLETED"}
               => syncStatuses[p].errors = NullErrors
        /\ syncStatuses[p].errors # NullErrors => syncStatuses[p].status = "FAILED"

----------------------------------------------------------------------------
(* Stored objects under direct creation (checked under SpecObjects).       *)

\* C24: every stored object, discovered or created through POST
\* /api/powercenter-objects, has automationCoverage in 0..100, at least 80
\* when it is FULLY_AUTO and at most 30 when it is MANUAL_REDESIGN.
C24_StoredCoverageMatchesStatus ==
    \A i \in DOMAIN powerCenterObjects :
        LET o == powerCenterObjects[i]
        IN  /\ o.automationCoverage \in 0..100
            /\ o.migrationStatus = "FULLY_AUTO" => o.automationCoverage >= 80
            /\ o.migrationStatus = "MANUAL_REDESIGN" => o.automationCoverage <= 30

----------------------------------------------------------------------------
(* Connections and project status (checked under SpecAdmin).               *)

\* C29: a connection test changes a RepositoryConnection only when the probe
\* succeeds, and then only isActive (to true) and lastConnected; no step sets
\* isActive back to false; discovery and start-sync leave every connection
\* unchanged.
C29_TestWritesOnlyOnSuccess ==
    [][/\ \A i \in DOMAIN pendingTests :
              /\ TestEnd(i, FALSE) => repositoryConnections' = repositoryConnections
              /\ TestEnd(i, TRUE) =>
                     /\ DOMAIN repositoryConnections' = DOMAIN repositoryConnections
                     /\ \A c \in DOMAIN repositoryConnections :
                            IF c = pendingTests[i]
                            THEN /\ repositoryConnections'[c].isActive
                                 /\ repositoryConnections'[c] =
                                        [repositoryConnections[c] EXCEPT
                                            !.isActive = TRUE,
                                            !.lastConnected =
                                                repositoryConnections'[c].lastConnected]
                            ELSE repositoryConnections'[c] = repositoryConnections[c]
       /\ \A c \in DOMAIN repositoryConnections \cap DOMAIN repositoryConnections' :
              repositoryConnections[c].isActive => repositoryConnections'[c].isActive
       /\ ( \/ \E id \in ConnectionIds : TestBegin(id)
            \/ \E id \in ProjectIds : StartSync(id) \/ DiscoverBegin(id)
            \/ Len(pendingDiscoveries') < Len(pendingDiscoveries) )
              => repositoryConnections' = repositoryConnections]_vars

\* C29 witness: a test has just answered connected: false for a connection
\* that an earlier test, at an earlier time, had marked active.
C29_Witness ==
    \E id \in DOMAIN repositoryConnections :
        /\ last = TestResponse(id, 200, FALSE)
        /\ repositoryConnections[id].isActive
        /\ repositoryConnections[id].lastConnected = Date(0)
        /\ now = 1
        /\ Len(timers) > 0

\* C30: a discovery run on a stored project ends with status ASSESSMENT when
\* it succeeds and DISCOVERY when it fails, whatever the status was; a
\* discover call answered not-found leaves the project records unchanged.
C30_DiscoveryEndStatus ==
    [][/\ \A i \in DOMAIN pendingDiscoveries :
              LET id == pendingDiscoveries[i].projectId
              IN  MigrationProjectExists(migrationProjects, id)
                      => /\ (\E raw \in BasicPayloads : DiscoverEnd(i, raw))
                                => migrationProjects'[id].status = "ASSESSMENT"
                         /\ DiscoverFail(i) => migrationProjects'[id].status = "DISCOVERY"
       /\ \A id \in ProjectIds :
              (DiscoverBegin(id) /\ Len(pendingDiscoveries') = Len(pendingDiscoveries))
                  => /\ last' = Response("discover", id, 404)
                     /\ migrationProjects' = migrationProjects]_vars

\* C30 witness: a successful run that stored an object has just ended on a
\* project with a sync scheduled, and the project reads ASSESSMENT.
C30_Witness ==
    \E id \in DOMAIN migrationProjects :
        /\ last = Response("discover", id, 200)
        /\ migrationProjects[id].status = "ASSESSMENT"
        /\ migrationProjects[id].totalObjects = 1
        /\ Len(timers) > 0

----------------------------------------------------------------------------
(* Assessment and statistics of persisted objects (SpecAssess).            *)

ComplexExpressionIssues(issues) ==
    Cardinality({ k \in DOMAIN issues :
                    issues[k] = "Complex expression requiring manual conversion" })

DecodeObjects(objects) ==
    Cardinality({ k \in DOMAIN objects : HasDecode(objects[k].metadata) })

\* C25: in the assessment of a project's stored objects, every object whose
\* metadata holds an expression that references DECODE gives one 'Complex
\* expression requiring manual conversion' issue and lowers automationScore
\* by 0.5.
C25_DecodeInMetadataIsCounted ==
    \A id \in DOMAIN migrationProjects :
        last = Response("assess", id, 200)
            => LET objects == getPowerCenterObjects(powerCenterObjects, id)
               IN  /\ ComplexExpressionIssues(LastResult.recommendations)
                          = DecodeObjects(objects)
                   /\ AutomationScore2(objects)
                          <= 2 * Len(objects) - DecodeObjects(objects)

\* C28: when no discovery of a project is in flight, its totalObjects is the
\* number of objects stored for it and, when there are any, its
\* autoMigrationPercentage is the rounded percentage of them that are
\* FULLY_AUTO.
C28_StatsMatchStoredObjects ==
    \A id \in DOMAIN migrationProjects :
        (\A i \in DOMAIN pendingDiscoveries : pendingDiscoveries[i].projectId # id)
            => LET objects == getPowerCenterObjects(powerCenterObjects, id)
               IN  /\ migrationProjects[id].totalObjects = Len(objects)
                   /\ Len(objects) > 0
                          => migrationProjects[id].autoMigrationPercentage
                                 = Num(MathRound(CountFullyAuto(objects) * 100, Len(objects)))

----------------------------------------------------------------------------
(* The adapters (checked under SpecAdapter).                               *)

\* C26: in REST discovery a failed authentication fails the discovery, and
\* a failed read of one kind (not ok, transport error, unparsable body)
\* gives an empty list for that kind only: the discovery succeeds and stores
\* the objects of the other kinds.
C26_RestReadFailureIsPartial ==
    [][\A i \in DOMAIN pendingDiscoveries, raw \in AdapterPayloads, reads \in ReadOutcomes :
          LET id == pendingDiscoveries[i].projectId
              expected == [k \in Kinds |-> IF reads[k] = "ok" THEN raw[k] ELSE <<>>]
          IN  MigrationProjectExists(migrationProjects, id)
                  => /\ RestDiscover(i, raw, FALSE, reads)
                            => /\ last' = Response("discover", id, 500)
                               /\ powerCenterObjects' = powerCenterObjects
                     /\ RestDiscover(i, raw, TRUE, reads)
                            => /\ last' = Response("discover", id, 200)
                               /\ powerCenterObjects' =
                                      powerCenterObjects
                                          \o AllObjects(id, discoverRepositoryViaRest(expected))]_vars

\* C27: in pmrep discovery at most one list process is in flight at any
\* moment.
C27_PmrepListsAreSequential ==
    \A i \in DOMAIN pendingDiscoveries :
        "inFlight" \in DOMAIN pendingDiscoveries[i]
            => Cardinality(pendingDiscoveries[i].inFlight) <= 1

====
